---- MODULE Spec2Model ----
(***************************************************************************)
(* Model of src/main.py: the per-symbol analysis (analyze_stock), the main *)
(* loop over the ticker list (main) and the ranking (suggest_best_trade).  *)
(*                                                                         *)
(* Numbers.  Python/pandas work on IEEE doubles.  A value is modelled as   *)
(* a record [k, n, d]: k = "nan" (pandas' missing value), k = "inf"        *)
(* (+infinity, the result of x/0 for x > 0) or k = "fin", the exact        *)
(* rational n/d with d > 0.  Comparisons are made by cross-multiplication, *)
(* never on the representation, so 1/2 and 2/4 are the same number.        *)
(* Adjusted closes are non-negative integers (prices in some unit); a      *)
(* close of 0 is allowed.                                                  *)
(***************************************************************************)
EXTENDS Integers, Sequences, FiniteSets, TLC

VARIABLES pc, tickers, raw_data, idx, df, all_analyses, charts, csv, out, error

vars == <<pc, tickers, raw_data, idx, df, all_analyses, charts, csv, out, error>>

(* ---------------- bounds of the model ---------------- *)
\* main run: number of tickers, rows of the downloaded frame, largest close
NumTickers == 2
MainMaxLen == 2
MainMaxPrice == 1
\* single-symbol runs: rows of the series and largest close
MaxLen == 7
MaxPrice == 2
\* ranking runs: records in the list, largest trend score, largest return numerator
RankMaxLen == 3
RankMaxScore == 2
RankMaxRet == 1

(* ---------------- program constants ---------------- *)
\* rolling(window=5) and tail(5)
Window == 5
TailLen == 5
\* tickers[:20]
DemoLimit == 20

BullishReason == "Price above 5-day SMA with positive momentum"
NoSignalReason == "No strong bullish signal"

(* ---------------- floating point values ---------------- *)
NaN == [k |-> "nan", n |-> 0, d |-> 1]
Inf == [k |-> "inf", n |-> 0, d |-> 1]
Fin(a, b) == [k |-> "fin", n |-> a, d |-> b]
Zero == Fin(0, 1)

\* a / b of two non-negative floats: x/0 is +inf, 0/0 is nan (no exception)
Div(a, b) ==
  IF b = 0 THEN (IF a = 0 THEN NaN ELSE Inf) ELSE Fin(a, b)

\* x - m and x * m for an integer m > 0; nan and inf are absorbing
SubInt(x, m) == IF x.k = "fin" THEN Fin(x.n - m * x.d, x.d) ELSE x
MulInt(x, m) == IF x.k = "fin" THEN Fin(x.n * m, x.d) ELSE x

\* x > y on floats: every comparison with nan is False
GT(x, y) ==
  IF x.k = "nan" \/ y.k = "nan" THEN FALSE
  ELSE IF x.k = "inf" THEN y.k # "inf"
  ELSE IF y.k = "inf" THEN FALSE
  ELSE x.n * y.d > y.n * x.d

\* x == y on floats
EQ(x, y) ==
  IF x.k = "nan" \/ y.k = "nan" THEN FALSE
  ELSE IF x.k = "inf" \/ y.k = "inf" THEN x.k = y.k
  ELSE x.n * y.d = y.n * x.d

Max(a, b) == IF a >= b THEN a ELSE b
Min(a, b) == IF a <= b THEN a ELSE b

RECURSIVE SumRange(_, _, _)
SumRange(s, lo, hi) == IF lo > hi THEN 0 ELSE s[hi] + SumRange(s, lo, hi - 1)

(* ---------------- analyze_stock ---------------- *)
\* the return as a fraction instead of a percentage
PctChangeFraction(close) ==
  [i \in 1..Len(close) |->
     IF i = 1 THEN NaN
     ELSE SubInt(Div(close[i], close[i - 1]), 1)]

\* df['Adj Close'].pct_change() * 100
PctChange(close) ==
  [i \in 1..Len(close) |->
     IF i = 1 THEN NaN
     ELSE MulInt(SubInt(Div(close[i], close[i - 1]), 1), 100)]

\* df['Adj Close'].rolling(window=5).mean()
RollingMean(close) ==
  [i \in 1..Len(close) |->
     IF i < Window THEN NaN
     ELSE Fin(SumRange(close, i - Window + 1, i), Window)]

\* series.tail(k)
TailN(s, k) == SubSeq(s, Max(1, Len(s) - k + 1), Len(s))

\* (series > 0).sum()
RECURSIVE CountPositive(_)
CountPositive(s) ==
  IF s = <<>> THEN 0
  ELSE (IF GT(Head(s), Zero) THEN 1 ELSE 0) + CountPositive(Tail(s))

\* the frame after the two column assignments of analyze_stock
Indicators(close) ==
  LET ret == PctChange(close)
      sma == RollingMean(close)
  IN [i \in 1..Len(close) |->
        [AdjClose |-> Fin(close[i], 1), DailyReturn |-> ret[i], SMA5 |-> sma[i]]]

\* the count taken over one row too many
TrendScoreWide(rows) ==
  CountPositive(TailN([i \in 1..Len(rows) |-> rows[i].DailyReturn], TailLen + 1))

\* (df['Daily Return %'].tail(5) > 0).sum()
TrendScore(rows) ==
  CountPositive(TailN([i \in 1..Len(rows) |-> rows[i].DailyReturn], TailLen))

\* the rule with >= in place of > on the return
BullishNonStrict(last_close, sma5, last_return) ==
  GT(last_close, sma5) /\ (GT(last_return, Zero) \/ EQ(last_return, Zero))

\* if last_close > sma5 and last_return > 0
Bullish(last_close, sma5, last_return) ==
  GT(last_close, sma5) /\ GT(last_return, Zero)

\* df.iloc[-1] raises IndexError on a frame without rows
IlocLastRaises(close) == Len(close) = 0

\* the dict returned by analyze_stock, for a frame with at least one row
analyze_stock(ticker, close) ==
  LET rows == Indicators(close)
      latest == rows[Len(rows)]
      signal == Bullish(latest.AdjClose, latest.SMA5, latest.DailyReturn)
  IN [Ticker |-> ticker,
      LastClose |-> latest.AdjClose,
      LastReturn |-> latest.DailyReturn,
      SMA5 |-> latest.SMA5,
      TrendScore |-> TrendScore(rows),
      TradeSignal |-> signal,
      Reason |-> IF signal THEN BullishReason ELSE NoSignalReason]

(* ---------------- suggest_best_trade ---------------- *)
\* the list without the filter on the signal
CandidatesUnfiltered(analyses) == analyses

\* candidates = [a for a in analyses if a['Trade Signal']]
Candidates(analyses) == SelectSeq(analyses, LAMBDA a: a.TradeSignal)

\* the key with its two components exchanged
KeyLessSwapped(a, b) ==
  \/ GT(b.LastReturn, a.LastReturn)
  \/ EQ(a.LastReturn, b.LastReturn) /\ a.TrendScore < b.TrendScore

\* key(a) < key(b) for key = (Trend Score, Last Return %), compared as tuples
KeyLess(a, b) ==
  \/ a.TrendScore < b.TrendScore
  \/ a.TrendScore = b.TrendScore /\ GT(b.LastReturn, a.LastReturn)

\* the insertion that puts x before the elements of equal key
RECURSIVE InsertDescUnstable(_, _)
InsertDescUnstable(sorted, x) ==
  IF sorted = <<>> THEN <<x>>
  ELSE IF ~KeyLess(x, Head(sorted)) THEN <<x>> \o sorted
  ELSE <<Head(sorted)>> \o InsertDescUnstable(Tail(sorted), x)

\* place x in a list already in descending order, after every element whose
\* key is not less than x's: equal keys keep their input order
RECURSIVE InsertDesc(_, _)
InsertDesc(sorted, x) ==
  IF sorted = <<>> THEN <<x>>
  ELSE IF KeyLess(Head(sorted), x) THEN <<x>> \o sorted
  ELSE <<Head(sorted)>> \o InsertDesc(Tail(sorted), x)

\* sorted(candidates, key=..., reverse=True): stable, descending
RECURSIVE SortedDesc(_)
SortedDesc(s) ==
  IF s = <<>> THEN <<>>
  ELSE InsertDesc(SortedDesc(SubSeq(s, 1, Len(s) - 1)), s[Len(s)])

NoRecord ==
  [Ticker |-> 0, LastClose |-> NaN, LastReturn |-> NaN, SMA5 |-> NaN,
   TrendScore |-> 0, TradeSignal |-> FALSE, Reason |-> ""]

Pending == [kind |-> "pending", best |-> NoRecord]
NoCandidate == [kind |-> "none", best |-> NoRecord]

\* what suggest_best_trade prints
suggest_best_trade(analyses) ==
  IF Candidates(analyses) = <<>> THEN NoCandidate
  ELSE [kind |-> "best", best |-> SortedDesc(Candidates(analyses))[1]]

(* ---------------- main ---------------- *)
\* the loop stopping one ticker early
LoopHasNextShort == idx < Len(tickers)

\* for ticker in tickers: the loop has a next ticker
LoopHasNext == idx <= Len(tickers)

\* if ticker in raw_data
InRawData(t) == t \in DOMAIN raw_data

\* the ticker is not a column of the downloaded frame: nothing happens
LoopSkip ==
  /\ pc = "loop" /\ LoopHasNext
  /\ ~InRawData(tickers[idx])
  /\ idx' = idx + 1
  /\ UNCHANGED <<pc, tickers, raw_data, df, all_analyses, charts, csv, out, error>>

\* df = raw_data[ticker].copy(); analysis; append; plot_stock; print
LoopAnalyze ==
  /\ pc = "loop" /\ LoopHasNext
  /\ InRawData(tickers[idx])
  /\ ~IlocLastRaises(raw_data[tickers[idx]])
  /\ df' = Indicators(raw_data[tickers[idx]])
  /\ all_analyses' =
       Append(all_analyses, analyze_stock(tickers[idx], raw_data[tickers[idx]]))
  /\ charts' = charts \cup {tickers[idx]}
  /\ idx' = idx + 1
  /\ UNCHANGED <<pc, tickers, raw_data, csv, out, error>>

\* analyze_stock raises IndexError; main has no handler, the run ends
LoopRaise ==
  /\ pc = "loop" /\ LoopHasNext
  /\ InRawData(tickers[idx])
  /\ IlocLastRaises(raw_data[tickers[idx]])
  /\ df' = Indicators(raw_data[tickers[idx]])
  /\ pc' = "crashed"
  /\ error' = "IndexError"
  /\ UNCHANGED <<tickers, raw_data, idx, all_analyses, charts, csv, out>>

\* the loop is exhausted; save_to_csv(all_analyses)
SaveToCsv ==
  /\ pc = "loop" /\ ~LoopHasNext
  /\ csv' = all_analyses
  /\ pc' = "rank"
  /\ UNCHANGED <<tickers, raw_data, idx, df, all_analyses, charts, out, error>>

\* suggest_best_trade(all_analyses)
SuggestBestTrade ==
  /\ pc = "rank"
  /\ out' = suggest_best_trade(all_analyses)
  /\ pc' = "done"
  /\ UNCHANGED <<tickers, raw_data, idx, df, all_analyses, charts, csv, error>>

Next == LoopSkip \/ LoopAnalyze \/ LoopRaise \/ SaveToCsv \/ SuggestBestTrade

(* ---------------- initial states ---------------- *)
\* all sequences over S of length n
SeqsOfLen(S, n) == [1..n -> S]

\* tickers = fetch_sp500_tickers()[:20]
TickerList(n) == SubSeq([i \in 1..n |-> i], 1, Min(n, DemoLimit))

\* state at the start of the loop for a frame with `rows` rows whose columns
\* are the tickers in `present`; every column of one frame has the same rows
LoopStart(n, present, rows, maxPrice) ==
  /\ pc = "loop"
  /\ tickers = TickerList(n)
  /\ raw_data \in [present -> SeqsOfLen(0..maxPrice, rows)]
  /\ idx = 1
  /\ df = <<>>
  /\ all_analyses = <<>>
  /\ charts = {}
  /\ csv = <<>>
  /\ out = Pending
  /\ error = "none"

\* the run of main over NumTickers tickers
Init ==
  \E present \in SUBSET (1..NumTickers), rows \in 0..MainMaxLen :
    LoopStart(NumTickers, present, rows, MainMaxPrice)

Spec == Init /\ [][Next]_vars

\* the run of main over one ticker with a longer series
InitEngine ==
  \E present \in SUBSET {1}, rows \in 0..MaxLen :
    LoopStart(1, present, rows, MaxPrice)

SpecEngine == InitEngine /\ [][Next]_vars

(* ---------------- ranking of an arbitrary list ---------------- *)
\* returns that appear in the ranked records: nan, +inf and whole percentages
RankRets ==
  {NaN, Inf} \cup {Fin(a, 1) : a \in (-1)..RankMaxRet}

\* records shaped as analyze_stock builds them: a signal needs a positive
\* last return, and a positive last return is counted in the trend score
RankRecords ==
  {[Ticker |-> 0, LastClose |-> Fin(2, 1), LastReturn |-> r,
    SMA5 |-> IF g THEN Fin(1, 1) ELSE Fin(2, 1),
    TrendScore |-> s, TradeSignal |-> g,
    Reason |-> IF g THEN BullishReason ELSE NoSignalReason] :
     <<r, s, g>> \in
       {x \in RankRets \X (0..RankMaxScore) \X BOOLEAN :
          /\ x[3] => GT(x[1], Zero)
          /\ GT(x[1], Zero) => x[2] >= 1}}

\* the call suggest_best_trade(analyses) on a list whose i-th record is
\* the one of ticker i
InitRank ==
  \E n \in 0..RankMaxLen :
    \E f \in [1..n -> RankRecords] :
      /\ pc = "rank"
      /\ tickers = [i \in 1..n |-> i]
      /\ raw_data = <<>>
      /\ idx = n + 1
      /\ df = <<>>
      /\ all_analyses = [i \in 1..n |-> [f[i] EXCEPT !.Ticker = i]]
      /\ charts = {}
      /\ csv = [i \in 1..n |-> [f[i] EXCEPT !.Ticker = i]]
      /\ out = Pending
      /\ error = "none"

NextRank == SuggestBestTrade

SpecRank == InitRank /\ [][NextRank]_vars

(* ======================= properties ======================= *)

\* C1: every Analysis has trade_signal = TRUE with the bullish reason exactly
\* when last_close > trailing_avg_5 and last_return_pct > 0 (both strict);
\* otherwise (equality, zero, nan) trade_signal = FALSE with the other
\* reason.  No third (signal, reason) pair exists.
C1_SignalRule ==
  \A i \in 1..Len(all_analyses) :
    LET a == all_analyses[i]
        above == a.LastClose.k # "nan" /\ a.SMA5.k # "nan"
                   /\ a.LastClose.n * a.SMA5.d > a.SMA5.n * a.LastClose.d
        rising == a.LastReturn.k = "inf"
                    \/ (a.LastReturn.k = "fin" /\ a.LastReturn.n > 0)
    IN \/ above /\ rising
            /\ a.TradeSignal = TRUE /\ a.Reason = BullishReason
       \/ ~(above /\ rising)
            /\ a.TradeSignal = FALSE /\ a.Reason = NoSignalReason

\* C1 witness: an Analysis whose last close is above its 5-day average while
\* the last return is exactly zero; it carries no signal
C1_Witness ==
  \E i \in 1..Len(all_analyses) :
    /\ GT(all_analyses[i].LastClose, all_analyses[i].SMA5)
    /\ EQ(all_analyses[i].LastReturn, Zero)
    /\ all_analyses[i].TradeSignal = FALSE
    /\ all_analyses[i].Reason = NoSignalReason

\* C2: when some record is signalled, suggest_best_trade selects a signalled
\* record of the list such that no signalled record has a higher trend score
\* and none with the same trend score has a higher last return.
C2_BestIsMaximal ==
  (pc = "done" /\ \E i \in 1..Len(all_analyses) : all_analyses[i].TradeSignal)
    => /\ out.kind = "best"
       /\ \E i \in 1..Len(all_analyses) : all_analyses[i] = out.best
       /\ out.best.TradeSignal = TRUE
       /\ \A i \in 1..Len(all_analyses) :
            all_analyses[i].TradeSignal =>
              /\ all_analyses[i].TrendScore <= out.best.TrendScore
              /\ all_analyses[i].TrendScore = out.best.TrendScore
                   => ~GT(all_analyses[i].LastReturn, out.best.LastReturn)

\* C2 witness: A (lower score, higher return, signalled), B (higher score,
\* signalled), C (B's scores, not signalled): B is selected
C2_Witness ==
  /\ pc = "done" /\ Len(all_analyses) = 3
  /\ all_analyses[1].TradeSignal /\ all_analyses[2].TradeSignal
  /\ ~all_analyses[3].TradeSignal
  /\ all_analyses[1].TrendScore < all_analyses[2].TrendScore
  /\ GT(all_analyses[1].LastReturn, all_analyses[2].LastReturn)
  /\ all_analyses[3].TrendScore = all_analyses[2].TrendScore
  /\ EQ(all_analyses[3].LastReturn, all_analyses[2].LastReturn)
  /\ out.kind = "best" /\ out.best.Ticker = 2

\* C3: a symbol whose series has fewer than 5 bars has no Analysis record in
\* the collection that is ranked and written; no InsufficientHistory exists
\* in the code, the record is appended with trade_signal = FALSE.
C3_ShortSeriesExcluded ==
  /\ \A i \in 1..Len(all_analyses) :
       Len(raw_data[all_analyses[i].Ticker]) >= Window
  /\ \A i \in 1..Len(csv) : Len(raw_data[csv[i].Ticker]) >= Window

\* C4: a per-symbol failure never aborts the run: no exception leaves main.
C4_RunNeverAborts == pc # "crashed" /\ error = "none"

C6_TrendScore ==
  (error = "none" /\ all_analyses # <<>> /\ Len(tickers) = 1)
    => LET a == all_analyses[Len(all_analyses)]
           n == Len(df)
           counted == {j \in 1..n :
                         /\ j > n - 5
                         /\ df[j].DailyReturn.k # "nan"
                         /\ (df[j].DailyReturn.k = "inf" \/ df[j].DailyReturn.n > 0)}
       IN /\ n = Len(raw_data[a.Ticker])
          /\ a.TrendScore = Cardinality(counted)
          /\ a.TrendScore \in 0..5

\* C6 witness: 6 or more rows, a positive return outside the last 5 rows, a
\* zero return and a positive one inside them
C6_Witness ==
  /\ error = "none" /\ all_analyses # <<>> /\ Len(tickers) = 1
  /\ Len(df) >= 6
  /\ \E j \in 1..(Len(df) - 5) : GT(df[j].DailyReturn, Zero)
  /\ \E j \in (Len(df) - 4)..Len(df) : EQ(df[j].DailyReturn, Zero)
  /\ all_analyses[1].TrendScore \in 1..4

\* C7: ranking runs only after every ticker of the list was analysed or
\* skipped: from the saving step on, the loop is exhausted, the collection
\* holds exactly the tickers present in the data, in order, and no step
\* changes the collection or the loop position any more.
C7_Barrier ==
  /\ [](pc \in {"rank", "done"} =>
          /\ idx = Len(tickers) + 1
          /\ [i \in 1..Len(all_analyses) |-> all_analyses[i].Ticker]
               = SelectSeq(tickers, LAMBDA t : t \in DOMAIN raw_data)
          /\ (pc = "done" => out # Pending))
  /\ [][(pc \in {"rank", "done"}) =>
          (all_analyses' = all_analyses /\ idx' = idx)]_vars
  /\ [][out' # out => (pc = "rank" /\ idx = Len(tickers) + 1)]_vars

\* C7 witness: a finished run in which one ticker was skipped and another
\* analysed
C7_Witness ==
  /\ pc = "done"
  /\ Len(all_analyses) >= 1 /\ Len(all_analyses) < Len(tickers)
  /\ all_analyses[1].Ticker = Len(tickers)

\* C8: no Analysis is produced from a series in which some bar's previous
\* close is zero.
C8_NoZeroDivisionAnalysis ==
  \A i \in 1..Len(all_analyses) :
    LET c == raw_data[all_analyses[i].Ticker]
    IN \A j \in 1..(Len(c) - 1) : c[j] # 0

\* C9: for a series of 6 or more bars the frame has one row per bar in the
\* same order; row 1 has no return and row i > 1 has
\* (close[i] - close[i-1]) / close[i-1] * 100 (no finite value when that
\* quotient has none); rows 1..4 have no average and row i >= 5 has the
\* mean of close[i-4..i].
C9_IndicatorRows ==
  (error = "none" /\ all_analyses # <<>> /\ Len(tickers) = 1
     /\ Len(raw_data[1]) >= 6)
    => LET c == raw_data[1]
       IN /\ Len(df) = Len(c)
          /\ \A i \in 1..Len(c) :
               /\ df[i].AdjClose.k = "fin"
               /\ df[i].AdjClose.n = c[i] * df[i].AdjClose.d
               /\ (i = 1) => df[i].DailyReturn.k = "nan"
               /\ (i > 1 /\ c[i - 1] # 0) =>
                    /\ df[i].DailyReturn.k = "fin"
                    /\ df[i].DailyReturn.n * c[i - 1]
                         = (c[i] - c[i - 1]) * 100 * df[i].DailyReturn.d
               /\ (i > 1 /\ c[i - 1] = 0) => df[i].DailyReturn.k # "fin"
               /\ (i <= 4) => df[i].SMA5.k = "nan"
               /\ (i >= 5) =>
                    /\ df[i].SMA5.k = "fin"
                    /\ df[i].SMA5.n * 5
                         = (c[i - 4] + c[i - 3] + c[i - 2] + c[i - 1] + c[i])
                             * df[i].SMA5.d

\* C9 witness: an analysed series of 6 or more positive closes with a rise
\* and a fall, whose last average is not a whole number
C9_Witness ==
  /\ error = "none" /\ all_analyses # <<>> /\ Len(tickers) = 1
  /\ Len(df) >= 6
  /\ \A j \in 1..Len(df) : raw_data[1][j] > 0
  /\ \E j \in 1..Len(df) : GT(df[j].DailyReturn, Zero)
  /\ \E j \in 1..Len(df) : GT(Zero, df[j].DailyReturn)
  /\ df[Len(df)].SMA5.n % df[Len(df)].SMA5.d # 0

\* C10: among signalled records that share the greatest (trend score, last
\* return) pair, the one earliest in the input list is selected.
C10_FirstWins ==
  (pc = "done" /\ out.kind = "best")
    => LET top == {i \in 1..Len(all_analyses) :
                     /\ all_analyses[i].TradeSignal
                     /\ \A j \in 1..Len(all_analyses) :
                          all_analyses[j].TradeSignal =>
                            ~KeyLess(all_analyses[i], all_analyses[j])}
       IN /\ top # {}
          /\ out.best.Ticker \in top
          /\ \A i \in top : out.best.Ticker <= i

\* C10 witness: two signalled records with the same greatest pair after a
\* lower signalled record; the earlier of the two wins
C10_Witness ==
  /\ pc = "done" /\ Len(all_analyses) = 3
  /\ \A i \in 1..3 : all_analyses[i].TradeSignal
  /\ KeyLess(all_analyses[1], all_analyses[2])
  /\ all_analyses[2].TrendScore = all_analyses[3].TrendScore
  /\ EQ(all_analyses[2].LastReturn, all_analyses[3].LastReturn)
  /\ out.kind = "best" /\ out.best.Ticker = 2
====
